---------------------------- MODULE Spec2Model ----------------------------
(***************************************************************************)
(* A model of src/main.py: the patient grid (PatientVoxel, PatientData),   *)
(* the depth-dose table (BeamData) and the treatment plan (TreatmentPlan). *)
(*                                                                         *)
(* Numbers.  The program computes with Python floats.  The model computes  *)
(* with exact rationals <<n, d>> (d > 0, lowest terms), and takes beam     *)
(* angles from a set whose cosine and sine are rational, so that every     *)
(* value of the model is the exact value of the expression the code        *)
(* evaluates.  Rounding of floats is not modelled.                         *)
(*                                                                         *)
(* None is modelled by the empty tuple <<>>.  Sequences are 1-based in     *)
(* TLA+; the indices of the program (0-based) are kept 0-based wherever    *)
(* the code computes with them, and one is added at the access.            *)
(***************************************************************************)
EXTENDS Integers, Sequences, FiniteSets

VARIABLES
    voxels,             \* PatientData.voxels: sequence of PatientVoxel records
    min_x, max_x,       \* PatientData.min_x, .max_x (None or a number)
    min_y, max_y,       \* PatientData.min_y, .max_y
    center_x, center_y, \* PatientData.center_x, .center_y
    stride,             \* PatientData.stride: <<>> (None) or <<n>>
    beam,               \* the BeamData object: off_axis_coordinates, depths, doses
    plan_made,          \* whether TreatmentPlan(patient) has been constructed
    dose_distribution,  \* TreatmentPlan.dose_distribution
    rot_angle,          \* history: the latest rotate since the grid last grew (None, or
                        \* its angle and whether the rotate before it had the same angle)
    log,                \* history: one record per treat_with_beam_at_angle call
    dose_before,        \* history: the dose distribution when the latest of them began
    last                \* the most recent call: its name, arguments and outcome

vars == <<voxels, min_x, max_x, min_y, max_y, center_x, center_y, stride,
          beam, plan_made, dose_distribution, rot_angle, log, dose_before, last>>

grid == <<voxels, min_x, max_x, min_y, max_y, center_x, center_y>>

---------------------------------------------------------------------------
(* Bounds of the model.                                                    *)

\* The most voxels a grid holds.
MaxVoxels == 2

\* The most treat_with_beam_at_angle calls of one behaviour.
MaxBeams == 2

---------------------------------------------------------------------------
(* Exact arithmetic standing for the float arithmetic of the program.      *)

None == <<>>

Abs(n) == IF n < 0 THEN -n ELSE n

RECURSIVE GCD(_, _)
GCD(a, b) == IF b = 0 THEN a ELSE GCD(b, a % b)

\* The rational n/d in lowest terms with a positive denominator.
Norm(n, d) ==
    LET g == GCD(Abs(n), Abs(d))
        s == IF d < 0 THEN -1 ELSE 1
    IN  <<(s * n) \div g, (s * d) \div g>>

\* float(n) of an integer literal n.
Float(n) == <<n, 1>>

RAdd(a, b) == Norm(a[1] * b[2] + b[1] * a[2], a[2] * b[2])
RSub(a, b) == Norm(a[1] * b[2] - b[1] * a[2], a[2] * b[2])
RMul(a, b) == Norm(a[1] * b[1], a[2] * b[2])
RDiv(a, b) == Norm(a[1] * b[2], a[2] * b[1])
RNeg(a)    == <<-a[1], a[2]>>
RLt(a, b)  == a[1] * b[2] < b[1] * a[2]
RGt(a, b)  == RLt(b, a)

\* The beam angles of the model, in degrees.  53 stands for arctan(4/3) =
\* 53.13... degrees, the angle whose cosine and sine are exactly 3/5 and 4/5.
Angles == {0, 53, 180}

\* math.cos(math.radians(a)) and math.sin(math.radians(a)).
Cos(a) == CASE a = 0 -> <<1, 1>> [] a = 53 -> <<3, 5>> [] a = 180 -> <<-1, 1>>
Sin(a) == CASE a = 0 -> <<0, 1>> [] a = 53 -> <<4, 5>> [] a = 180 -> <<0, 1>>

---------------------------------------------------------------------------
(* PatientVoxel and PatientData.                                           *)

\* PatientVoxel.__init__: the file's y grows downwards and is negated.
PatientVoxel(x, y, structure_code) ==
    [x |-> Float(x), y |-> RNeg(Float(y)), structure_code |-> structure_code,
     transformed_x |-> Float(x), transformed_y |-> RNeg(Float(y))]

\* PatientData.__init__, as the tuple <<voxels, min_x, ..., center_y>>.
EmptyGrid == <<<<>>, None, None, None, None, None, None>>

\* PatientData.add_voxel on the grid g: the grid after the call.
AddVoxelTo(g, voxel) ==
    LET mnx == IF g[2] = None \/ RLt(voxel.x, g[2]) THEN voxel.x ELSE g[2]
        mxx == IF g[3] = None \/ RGt(voxel.x, g[3]) THEN voxel.x ELSE g[3]
        mny == IF g[4] = None \/ RLt(voxel.y, g[4]) THEN voxel.y ELSE g[4]
        mxy == IF g[5] = None \/ RGt(voxel.y, g[5]) THEN voxel.y ELSE g[5]
    IN  <<Append(g[1], voxel), mnx, mxx, mny, mxy,
          RDiv(RAdd(mnx, mxx), Float(2)), RDiv(RAdd(mny, mxy), Float(2))>>

\* A rotate that turns the voxel on from where the rotation before left it:
\* it reads transformed_x, transformed_y where rotate reads x, y.
RotateVoxelCumulative(voxel, cx, cy, angle_degrees) ==
    LET cos_angle == Cos(angle_degrees)
        sin_angle == Sin(angle_degrees)
        translated_x == RSub(voxel.transformed_x, cx)
        translated_y == RSub(voxel.transformed_y, cy)
        rotated_x == RSub(RMul(translated_x, cos_angle), RMul(translated_y, sin_angle))
        rotated_y == RAdd(RMul(translated_x, sin_angle), RMul(translated_y, cos_angle))
    IN  [voxel EXCEPT !.transformed_x = RAdd(rotated_x, cx),
                      !.transformed_y = RAdd(rotated_y, cy)]

\* The body of rotate's loop for one voxel, about the center (cx, cy).
RotateVoxel(voxel, cx, cy, angle_degrees) ==
    LET cos_angle == Cos(angle_degrees)
        sin_angle == Sin(angle_degrees)
        translated_x == RSub(voxel.x, cx)
        translated_y == RSub(voxel.y, cy)
        rotated_x == RSub(RMul(translated_x, cos_angle), RMul(translated_y, sin_angle))
        rotated_y == RAdd(RMul(translated_x, sin_angle), RMul(translated_y, cos_angle))
    IN  [voxel EXCEPT !.transformed_x = RAdd(rotated_x, cx),
                      !.transformed_y = RAdd(rotated_y, cy)]

\* PatientData.rotate: the voxel sequence after the call.
RotateVoxels(vs, cx, cy, angle_degrees) ==
    [i \in 1..Len(vs) |-> RotateVoxel(vs[i], cx, cy, angle_degrees)]

\* A find_surface that does not look at the structure code: the greatest
\* transformed y of the first n voxels, air or not.
RECURSIVE SurfaceAnyCodeUpTo(_, _)
SurfaceAnyCodeUpTo(vs, n) ==
    IF n = 0 THEN None
    ELSE LET surface_y == SurfaceAnyCodeUpTo(vs, n - 1)
         IN  IF surface_y = None \/ RGt(vs[n].transformed_y, surface_y)
                THEN vs[n].transformed_y
                ELSE surface_y

\* PatientData.find_surface: the loop over the first n voxels; None when no
\* voxel among them has a structure code other than "A".
RECURSIVE SurfaceUpTo(_, _)
SurfaceUpTo(vs, n) ==
    IF n = 0 THEN None
    ELSE LET surface_y == SurfaceUpTo(vs, n - 1)
             voxel == vs[n]
         IN  IF voxel.structure_code # "A"
                THEN IF surface_y = None \/ RGt(voxel.transformed_y, surface_y)
                        THEN voxel.transformed_y
                        ELSE surface_y
                ELSE surface_y

find_surface(vs) == SurfaceUpTo(vs, Len(vs))

---------------------------------------------------------------------------
(* BeamData.                                                               *)

\* A BeamData object from integer axes and rows of integer doses, as
\* BeamData.load_from_csv builds it: the axes as floats, the doses row by
\* row (one row per off-axis coordinate) in one flat list.
RECURSIVE Flatten(_)
Flatten(rows) == IF rows = <<>> THEN <<>> ELSE Head(rows) \o Flatten(Tail(rows))

BeamData(off_axis, depths, rows) ==
    [off_axis_coordinates |-> [i \in 1..Len(off_axis) |-> Float(off_axis[i])],
     depths |-> [j \in 1..Len(depths) |-> Float(depths[j])],
     doses |-> Flatten([i \in 1..Len(rows) |->
                          [j \in 1..Len(rows[i]) |-> Float(rows[i][j])]])]

\* The outcome of a call: the exception it raised ("none" when it returned)
\* and the value it returned (None when it raised or returns nothing).
Returned(v) == [raised |-> "none", value |-> v]
Raised(e)   == [raised |-> e, value |-> None]

\* BeamData.get_dose_at_index, with the 0-based indices of the program.
get_dose_at_index(b, off_axis_index, depth_index) ==
    IF off_axis_index < 0 \/ off_axis_index >= Len(b.off_axis_coordinates)
        THEN Raised("IndexError")
    ELSE IF depth_index < 0 \/ depth_index >= Len(b.depths)
        THEN Raised("IndexError")
    ELSE LET dose_index == off_axis_index * Len(b.depths) + depth_index
         IN  Returned(b.doses[dose_index + 1])

\* The search loops of get_dose_at_depth: the index before the first entry of
\* the axis that is greater than the value, and the last index of the axis
\* when the loop ends without a break.
BracketIndex(axis, value) ==
    LET greater == {i \in 0..(Len(axis) - 1) : RGt(axis[i + 1], value)}
    IN  IF greater = {} THEN Len(axis) - 1
        ELSE (CHOOSE i \in greater : \A k \in greater : i <= k) - 1

\* The arithmetic of get_dose_at_depth on the four doses it has fetched:
\* along the off-axis direction at both depths, then along the depth.
Interpolate(b, off_axis_index, depth_index, d1, d2, d3, d4, off_axis_value, depth) ==
    LET delta_coord == RSub(b.off_axis_coordinates[off_axis_index + 2],
                            b.off_axis_coordinates[off_axis_index + 1])
        delta_target == RSub(off_axis_value, b.off_axis_coordinates[off_axis_index + 1])
        d1_2 == RAdd(d1, RMul(RSub(d2, d1), RDiv(delta_target, delta_coord)))
        d3_4 == RAdd(d3, RMul(RSub(d4, d3), RDiv(delta_target, delta_coord)))
        delta_depth == RSub(b.depths[depth_index + 2], b.depths[depth_index + 1])
        delta_target_d == RSub(depth, b.depths[depth_index + 1])
    IN  RAdd(d1_2, RMul(RSub(d3_4, d1_2), RDiv(delta_target_d, delta_depth)))

\* BeamData.get_dose_at_depth.  A get_dose_at_index call that raises ends the
\* call; all four raise the same exception, so which one is first does not
\* show in the outcome.
get_dose_at_depth(b, off_axis_value, depth) ==
    LET off_axis_index == BracketIndex(b.off_axis_coordinates, off_axis_value)
        depth_index == BracketIndex(b.depths, depth)
        d1 == get_dose_at_index(b, off_axis_index, depth_index)
        d2 == get_dose_at_index(b, off_axis_index + 1, depth_index)
        d3 == get_dose_at_index(b, off_axis_index, depth_index + 1)
        d4 == get_dose_at_index(b, off_axis_index + 1, depth_index + 1)
    IN  IF d1.raised # "none" THEN d1
        ELSE IF d2.raised # "none" THEN d2
        ELSE IF d3.raised # "none" THEN d3
        ELSE IF d4.raised # "none" THEN d4
        ELSE Returned(Interpolate(b, off_axis_index, depth_index,
                                  d1.value, d2.value, d3.value, d4.value,
                                  off_axis_value, depth))

\* The depth-dose tables of the model: strictly ascending axes, one dose per
\* (off-axis, depth) pair.  The first is the table of the end-to-end scenario.
Tables ==
    { BeamData(<<-1, 1>>, <<0, 2>>, <<<<10, 20>>, <<10, 20>>>>),
      BeamData(<<-2, 0, 2>>, <<0, 1, 3>>,
               <<<<0, 10, 40>>, <<20, 50, 70>>, <<30, 90, 60>>>>) }

---------------------------------------------------------------------------
(* PatientData.load_from_csv.  A file is given split into cells: the x     *)
(* coordinates of its first line (without the corner cell) and, per later  *)
(* line, the y coordinate and the structure codes that follow it.          *)

\* The inner loop of load_from_csv: the cells of one row from the 0-based
\* index on.  x_coords[index] raises IndexError past the end of the header.
RECURSIVE LoadCells(_, _, _, _, _)
LoadCells(g, x_coords, y_coord, codes, index) ==
    IF index >= Len(codes) THEN [grid |-> g, raised |-> "none"]
    ELSE IF index >= Len(x_coords) THEN [grid |-> g, raised |-> "IndexError"]
    ELSE LoadCells(AddVoxelTo(g, PatientVoxel(x_coords[index + 1], y_coord, codes[index + 1])),
                   x_coords, y_coord, codes, index + 1)

\* The outer loop of load_from_csv from row r (1-based) on, with the grid g
\* and the stride st reached so far.
RECURSIVE LoadRows(_, _, _, _, _)
LoadRows(g, st, x_coords, rows, r) ==
    IF r > Len(rows) THEN [grid |-> g, stride |-> st, raised |-> "none"]
    ELSE LET n == Len(rows[r].codes)     \* len(row_elements) - 1
         IN  IF st # None /\ st[1] # n
                THEN [grid |-> g, stride |-> st, raised |-> "ValueError"]
             ELSE LET cells == LoadCells(g, x_coords, rows[r].y, rows[r].codes, 0)
                  IN  IF cells.raised # "none"
                         THEN [grid |-> cells.grid, stride |-> <<n>>, raised |-> cells.raised]
                      ELSE LoadRows(cells.grid, <<n>>, x_coords, rows, r + 1)

load_from_csv(g, st, file) == LoadRows(g, st, file.x_coords, file.rows, 1)

---------------------------------------------------------------------------
(* TreatmentPlan.                                                          *)

NoSurface    == "ValueError: No surface found in patient data"
AboveSurface == "ValueError: Voxel is above the surface"

\* TreatmentPlan.__init__: [0.0] * len(patient.voxels).
ZeroDoses(n) == [i \in 1..n |-> Float(0)]

\* An accumulation that stores the beam's dose over the entry: = for +=.
AccumulateOverwrite(dd, i, dose) == [dd EXCEPT ![i + 1] = dose]

\* self.dose_distribution[i] += dose, with the 0-based i of the program.
Accumulate(dd, i, dose) == [dd EXCEPT ![i + 1] = RAdd(@, dose)]

\* The loop of treat_with_beam_at_angle from the 0-based index i on: the
\* dose distribution it leaves, the exception that ended it and the index of
\* the voxel it ended at (-1 when it ran to the end).
RECURSIVE TreatLoop(_, _, _, _, _)
TreatLoop(vs, surface_y, b, dd, i) ==
    IF i >= Len(vs) THEN [dd |-> dd, raised |-> "none", at |-> -1]
    ELSE LET voxel == vs[i + 1]
             depth == RSub(surface_y, voxel.transformed_y)
         IN  IF RLt(depth, Float(0))
                THEN [dd |-> dd, raised |-> AboveSurface, at |-> i]
             ELSE LET dose == get_dose_at_depth(b, voxel.transformed_x, depth)
                  IN  IF dose.raised # "none"
                         THEN [dd |-> dd, raised |-> dose.raised, at |-> i]
                      ELSE IF i >= Len(dd)
                         THEN [dd |-> dd, raised |-> "IndexError", at |-> i]
                      ELSE TreatLoop(vs, surface_y, b, Accumulate(dd, i, dose.value), i + 1)

\* treat_with_beam_at_angle on the voxels vs already rotated to the angle.
TreatRotated(vs, b, dd) ==
    LET surface_y == find_surface(vs)
    IN  IF surface_y = None
           THEN [dd |-> dd, raised |-> NoSurface, at |-> -1]
           ELSE TreatLoop(vs, surface_y, b, dd, 0)

---------------------------------------------------------------------------
(* The calls a driver makes, one action per call.                          *)

\* The record of a call.
Call(op, arg, raised, value, at) ==
    [op |-> op, arg |-> arg, raised |-> raised, value |-> value, at |-> at]

\* The voxels add_voxel is called with, as the cells <<x, y, structure code>>
\* of a file of two rows and two columns: tissue and air in the upper row
\* (y = 0), air and tissue in the lower row (y = 1, below: y grows downwards).
VoxelInputs == {<<0, 0, "P">>, <<1, 0, "A">>, <<0, 1, "A">>, <<1, 1, "P">>}

\* The angles treat_with_beam_at_angle is called with.
BeamAngles == {0, 53}

\* The history of rotations after a rotate by the angle.
Rotated(angle_degrees) ==
    [angle |-> angle_degrees,
     repeated |-> rot_angle # None /\ rot_angle.angle = angle_degrees]

\* The fields of the PatientData object become those of the grid g.
SetGrid(g) ==
    /\ voxels' = g[1]
    /\ min_x' = g[2] /\ max_x' = g[3] /\ min_y' = g[4] /\ max_y' = g[5]
    /\ center_x' = g[6] /\ center_y' = g[7]

Init ==
    /\ voxels = <<>>
    /\ min_x = None /\ max_x = None /\ min_y = None /\ max_y = None
    /\ center_x = None /\ center_y = None
    /\ stride = None
    /\ beam \in Tables
    /\ plan_made = FALSE
    /\ dose_distribution = <<>>
    /\ rot_angle = None
    /\ log = <<>>
    /\ dose_before = <<>>
    /\ last = Call("init", <<>>, "none", None, -1)

\* patient.add_voxel(PatientVoxel(x, y, structure_code))
AddVoxel(x, y, structure_code) ==
    /\ Len(voxels) < MaxVoxels
    /\ SetGrid(AddVoxelTo(grid, PatientVoxel(x, y, structure_code)))
    /\ rot_angle' = None
    /\ last' = Call("add_voxel", <<x, y, structure_code>>, "none", None, -1)
    /\ UNCHANGED <<stride, beam, plan_made, dose_distribution, log, dose_before>>

\* TreatmentPlan(patient)
MakePlan ==
    /\ ~plan_made
    /\ plan_made' = TRUE
    /\ dose_distribution' = ZeroDoses(Len(voxels))
    /\ last' = Call("TreatmentPlan", <<>>, "none", None, -1)
    /\ UNCHANGED <<grid, stride, beam, rot_angle, log, dose_before>>

\* patient.rotate(angle_degrees)
Rotate(angle_degrees) ==
    /\ voxels' = RotateVoxels(voxels, center_x, center_y, angle_degrees)
    /\ rot_angle' = Rotated(angle_degrees)
    /\ last' = Call("rotate", <<angle_degrees>>, "none", None, -1)
    /\ UNCHANGED <<min_x, max_x, min_y, max_y, center_x, center_y, stride,
                   beam, plan_made, dose_distribution, log, dose_before>>

\* patient.find_surface()
FindSurface ==
    /\ last' = Call("find_surface", <<>>, "none", find_surface(voxels), -1)
    /\ UNCHANGED <<grid, stride, beam, plan_made, dose_distribution, rot_angle, log, dose_before>>

\* plan.treat_with_beam_at_angle(beam, angle_degrees)
TreatWithBeamAtAngle(angle_degrees) ==
    /\ plan_made
    /\ Len(log) < MaxBeams
    /\ LET rotated == RotateVoxels(voxels, center_x, center_y, angle_degrees)
           out == TreatRotated(rotated, beam, dose_distribution)
       IN  /\ voxels' = rotated
           /\ dose_distribution' = out.dd
           /\ log' = Append(log, [angle |-> angle_degrees, raised |-> out.raised, at |-> out.at])
           /\ last' = Call("treat_with_beam_at_angle", <<angle_degrees>>, out.raised, None, out.at)
    /\ dose_before' = dose_distribution
    /\ rot_angle' = Rotated(angle_degrees)
    /\ UNCHANGED <<min_x, max_x, min_y, max_y, center_x, center_y, stride, beam, plan_made>>

Next ==
    \/ \E v \in VoxelInputs : AddVoxel(v[1], v[2], v[3])
    \/ MakePlan
    \/ FindSurface
    \/ \E a \in BeamAngles : TreatWithBeamAtAngle(a)

Spec == Init /\ [][Next]_vars

---------------------------------------------------------------------------
(* The grid alone: add_voxel and rotate in any order.                      *)

NextGrid ==
    \/ \E v \in VoxelInputs : AddVoxel(v[1], v[2], v[3])
    \/ \E a \in Angles : Rotate(a)

SpecGrid == Init /\ [][NextGrid]_vars

---------------------------------------------------------------------------
(* The table alone: the two lookups on every table of the model.           *)

\* The values get_dose_at_depth is asked for: the halves from -5/2 to 7/2,
\* which lie below, on, between and beyond the coordinates of both tables.
QueryValues == {Norm(n, 2) : n \in -5..7}

\* The indices get_dose_at_index is asked for.
QueryIndices == -1..3

\* beam.get_dose_at_index(off_axis_index, depth_index)
GetDoseAtIndex(off_axis_index, depth_index) ==
    /\ LET out == get_dose_at_index(beam, off_axis_index, depth_index)
       IN  last' = Call("get_dose_at_index", <<off_axis_index, depth_index>>,
                        out.raised, out.value, -1)
    /\ UNCHANGED <<grid, stride, beam, plan_made, dose_distribution, rot_angle, log, dose_before>>

\* beam.get_dose_at_depth(off_axis_value, depth)
GetDoseAtDepth(off_axis_value, depth) ==
    /\ LET out == get_dose_at_depth(beam, off_axis_value, depth)
       IN  last' = Call("get_dose_at_depth", <<off_axis_value, depth>>,
                        out.raised, out.value, -1)
    /\ UNCHANGED <<grid, stride, beam, plan_made, dose_distribution, rot_angle, log, dose_before>>

NextLookup ==
    \/ \E i \in QueryIndices, j \in QueryIndices : GetDoseAtIndex(i, j)
    \/ \E o \in QueryValues, d \in QueryValues : GetDoseAtDepth(o, d)

SpecLookup == Init /\ [][NextLookup]_vars

---------------------------------------------------------------------------
(* Loading the grid: load_from_csv on files of a few cells.                *)

\* The most structure codes a row of a file holds.
MaxCols == 2

\* The most rows of structure codes a file holds.
MaxRows == 2

\* The most voxels the loaded files hold together.
MaxCells == 4

\* The first lines of the files: one or two x coordinates.
Headers == {<<0>>, <<0, 1>>}

\* The structure codes of one row: any number of them up to MaxCols.
RowCodes == UNION {[1..k -> {"A", "P"}] : k \in 0..MaxCols}

\* The files: a header, and rows whose y coordinate is the row's number.
Files ==
    {[x_coords |-> h, rows |-> [r \in 1..Len(cs) |-> [y |-> r - 1, codes |-> cs[r]]]] :
        h \in Headers, cs \in UNION {[1..n -> RowCodes] : n \in 0..MaxRows}}

RECURSIVE CellCount(_)
CellCount(rows) == IF rows = <<>> THEN 0 ELSE Len(Head(rows).codes) + CellCount(Tail(rows))

\* patient.load_from_csv(file)
LoadFromCsv(file) ==
    /\ Len(voxels) + CellCount(file.rows) <= MaxCells
    /\ LET out == load_from_csv(grid, stride, file)
       IN  /\ SetGrid(out.grid)
           /\ stride' = out.stride
           /\ last' = Call("load_from_csv", <<file.x_coords, file.rows>>, out.raised, None, -1)
    /\ rot_angle' = None
    /\ UNCHANGED <<beam, plan_made, dose_distribution, log, dose_before>>

NextLoad == \E file \in Files : LoadFromCsv(file)

SpecLoad == Init /\ [][NextLoad]_vars

---------------------------------------------------------------------------
(* Claims about the table lookups (SpecLookup).                            *)

\* The doses at the four corners of the cell whose lower indices are
\* (off_axis_index, depth_index), interpolated at (off_axis_value, depth).
InterpolatedIn(b, off_axis_index, depth_index, off_axis_value, depth) ==
    Interpolate(b, off_axis_index, depth_index,
                get_dose_at_index(b, off_axis_index, depth_index).value,
                get_dose_at_index(b, off_axis_index + 1, depth_index).value,
                get_dose_at_index(b, off_axis_index, depth_index + 1).value,
                get_dose_at_index(b, off_axis_index + 1, depth_index + 1).value,
                off_axis_value, depth)

\* No entry of the axis is greater than the value: the value is at or beyond
\* the last entry.
AtOrBeyondLast(axis, value) == \A i \in 1..Len(axis) : ~RGt(axis[i], value)

\* The value is below the first entry of the axis.
BelowFirst(axis, value) == RLt(value, axis[1])

\* The lower index the bracketing rule of the claims gives: length - 2 for a
\* value at or beyond the last entry.
ClaimedIndex(axis, value) ==
    IF AtOrBeyondLast(axis, value) THEN Len(axis) - 2 ELSE BracketIndex(axis, value)

\* C2: a get_dose_at_depth call whose off-axis value or depth is at or beyond
\* the last entry of its axis (and whose other value is not below the first
\* entry of its axis) brackets that value at index length - 2 and returns the
\* dose extrapolated along the last interval: it does not raise.
C2_BeyondLastExtrapolates ==
    (/\ last.op = "get_dose_at_depth"
     /\ \/ AtOrBeyondLast(beam.off_axis_coordinates, last.arg[1])
        \/ AtOrBeyondLast(beam.depths, last.arg[2])
     /\ ~BelowFirst(beam.off_axis_coordinates, last.arg[1])
     /\ ~BelowFirst(beam.depths, last.arg[2]))
    => /\ AtOrBeyondLast(beam.off_axis_coordinates, last.arg[1])
            => BracketIndex(beam.off_axis_coordinates, last.arg[1])
                 = Len(beam.off_axis_coordinates) - 2
       /\ AtOrBeyondLast(beam.depths, last.arg[2])
            => BracketIndex(beam.depths, last.arg[2]) = Len(beam.depths) - 2
       /\ last.raised = "none"
       /\ last.value = InterpolatedIn(beam, ClaimedIndex(beam.off_axis_coordinates, last.arg[1]),
                                      ClaimedIndex(beam.depths, last.arg[2]),
                                      last.arg[1], last.arg[2])

\* C3: a get_dose_at_depth call at the coordinates of a node of the table,
\* (off_axis_coordinates[i], depths[j]) for any valid i and j, the last ones
\* included, returns the dose get_dose_at_index(i, j) returns.
C3_ExactAtNodes ==
    last.op = "get_dose_at_depth"
    => \A i \in 0..(Len(beam.off_axis_coordinates) - 1), j \in 0..(Len(beam.depths) - 1) :
         last.arg = <<beam.off_axis_coordinates[i + 1], beam.depths[j + 1]>>
         => /\ last.raised = "none"
            /\ last.value = get_dose_at_index(beam, i, j).value

\* C4: a get_dose_at_depth call whose off-axis value or depth is below the
\* first entry of its axis (and whose other value is not at or beyond the
\* last entry of its axis) brackets that value at index 0, asks
\* get_dose_at_index for no index out of range, and does not raise.
C4_BelowFirstBracketsZero ==
    (/\ last.op = "get_dose_at_depth"
     /\ \/ BelowFirst(beam.off_axis_coordinates, last.arg[1])
        \/ BelowFirst(beam.depths, last.arg[2])
     /\ ~AtOrBeyondLast(beam.off_axis_coordinates, last.arg[1])
     /\ ~AtOrBeyondLast(beam.depths, last.arg[2]))
    => /\ BelowFirst(beam.off_axis_coordinates, last.arg[1])
            => BracketIndex(beam.off_axis_coordinates, last.arg[1]) = 0
       /\ BelowFirst(beam.depths, last.arg[2])
            => BracketIndex(beam.depths, last.arg[2]) = 0
       /\ last.raised = "none"

---------------------------------------------------------------------------
(* Claims about loading the grid (SpecLoad).                               *)

\* C8: a load_from_csv call on a file with a row of structure codes whose
\* number of codes (at least one) differs from the number of x coordinates
\* of the header fails: it raises, whether or not the rows agree with each
\* other.
C8_RowsMatchHeader ==
    (/\ last.op = "load_from_csv"
     /\ \E r \in 1..Len(last.arg[2]) :
            /\ Len(last.arg[2][r].codes) >= 1
            /\ Len(last.arg[2][r].codes) # Len(last.arg[1]))
    => last.raised # "none"

---------------------------------------------------------------------------
(* Claims about the grid (SpecGrid).                                       *)

\* The voxels as they were before any rotation: transformed = original.
Fresh(vs) ==
    [i \in 1..Len(vs) |-> [vs[i] EXCEPT !.transformed_x = vs[i].x, !.transformed_y = vs[i].y]]

\* C6: a rotate call leaves every voxel's x, y and structure code, the order
\* and number of the voxels, the bounds and the center as they were; the
\* transformed coordinates it leaves are those a rotate by the same angle
\* leaves on the grid that was never rotated, whatever rotations came
\* before; and a rotate by the angle of the rotate before it changes nothing.
C6_RotationNotCumulative ==
    [][last'.op = "rotate" =>
         /\ Len(voxels') = Len(voxels)
         /\ \A i \in 1..Len(voxels) :
               /\ voxels'[i].x = voxels[i].x
               /\ voxels'[i].y = voxels[i].y
               /\ voxels'[i].structure_code = voxels[i].structure_code
         /\ UNCHANGED <<min_x, max_x, min_y, max_y, center_x, center_y>>
         /\ voxels' = RotateVoxels(Fresh(voxels), center_x, center_y, last'.arg[1])
         /\ (rot_angle # None /\ rot_angle.angle = last'.arg[1]) => voxels' = voxels
      ]_vars

\* C6's case: a rotate by 53 degrees right after a rotate by 53 degrees, on
\* a grid of two voxels or more that the rotation moves.
C6_Witness ==
    /\ last.op = "rotate"
    /\ rot_angle # None /\ rot_angle.angle = 53 /\ rot_angle.repeated
    /\ Len(voxels) >= 2
    /\ \E i \in 1..Len(voxels) : voxels[i].transformed_x # voxels[i].x

---------------------------------------------------------------------------
(* Claims about the treatment plan (Spec).                                 *)

IsAir(voxel) == voxel.structure_code = "A"

Treated == last.op = "treat_with_beam_at_angle"

\* C1: a treat_with_beam_at_angle call that raises, on a plan with one dose
\* per voxel of the grid, leaves every entry of the dose distribution as it
\* was before the call.
C1_FailedBeamLeavesDoses ==
    (Treated /\ last.raised # "none" /\ Len(dose_distribution) = Len(voxels))
    => dose_distribution = dose_before

\* C9: once the plan is constructed, the dose distribution has one entry per
\* voxel of the grid.
C9_OneDosePerVoxel == plan_made => Len(dose_distribution) = Len(voxels)

\* The 0-based indices of the air voxels above the surface.
AirAbove(vs, surface_y) ==
    {i \in 0..(Len(vs) - 1) : IsAir(vs[i + 1]) /\ RGt(vs[i + 1].transformed_y, surface_y)}

\* C10: in a treat_with_beam_at_angle call that finds a surface, on a plan
\* with one dose per voxel of the grid, no voxel other than air lies above
\* the surface; the call raises "above the surface" exactly when some air
\* voxel lies above the surface, at the first such voxel, having added their
\* doses to the entries of the voxels before it and to no other entry.
C10_AboveSurfaceOnlyForAir ==
    (Treated /\ last.raised # NoSurface /\ Len(dose_distribution) = Len(voxels)) =>
        LET surface_y == find_surface(voxels)
            above == AirAbove(voxels, surface_y)
            first == CHOOSE i \in above : \A k \in above : i <= k
        IN  /\ \A i \in 1..Len(voxels) :
                  ~IsAir(voxels[i])
                  => ~RLt(RSub(surface_y, voxels[i].transformed_y), Float(0))
            /\ last.raised = AboveSurface <=> above # {}
            /\ last.raised = AboveSurface =>
                  /\ last.at = first
                  /\ \A i \in 0..(Len(voxels) - 1) :
                        dose_distribution[i + 1] =
                           IF i < first
                              THEN RAdd(dose_before[i + 1],
                                        get_dose_at_depth(beam, voxels[i + 1].transformed_x,
                                            RSub(surface_y, voxels[i + 1].transformed_y)).value)
                              ELSE dose_before[i + 1]

\* The voxels other than air.
Tissue(vs) == {i \in 1..Len(vs) : ~IsAir(vs[i])}

\* C7: find_surface returns the greatest transformed y among the voxels
\* other than air, whatever the air voxels' y, and finds no surface when
\* every voxel is air; treat_with_beam_at_angle raises "no surface found",
\* and so does not complete, exactly when every voxel is air.
C7_SurfaceIsHighestTissue ==
    /\ last.op = "find_surface" =>
          IF Tissue(voxels) = {} THEN last.value = None
          ELSE /\ \E i \in Tissue(voxels) : last.value = voxels[i].transformed_y
               /\ \A i \in Tissue(voxels) : ~RGt(voxels[i].transformed_y, last.value)
    /\ Treated => (last.raised = NoSurface <=> Tissue(voxels) = {})
    /\ \A k \in 1..Len(log) : log[k].raised = NoSurface => log[k].at = -1

\* C7's case: find_surface has returned a y with an air voxel above it, on a
\* plan whose earlier beam, when all of the grid was air, found no surface.
C7_Witness ==
    /\ last.op = "find_surface"
    /\ last.value # None
    /\ \E i \in 1..Len(voxels) :
          IsAir(voxels[i]) /\ RGt(voxels[i].transformed_y, last.value)
    /\ \E k \in 1..Len(log) : log[k].raised = NoSurface

\* The grid of the first n voxels of vs, as add_voxel built it.
RECURSIVE GridOfPrefix(_, _)
GridOfPrefix(vs, n) ==
    IF n = 0 THEN EmptyGrid ELSE AddVoxelTo(GridOfPrefix(vs, n - 1), vs[n])

\* The dose one beam at the angle gives voxel i (1-based) of the grid g:
\* the lookup at the voxel's transformed x and its depth under the surface,
\* the grid being rotated to the angle.
BeamDose(b, g, angle_degrees, i) ==
    LET rotated == RotateVoxels(g[1], g[6], g[7], angle_degrees)
        surface_y == find_surface(rotated)
    IN  get_dose_at_depth(b, rotated[i].transformed_x,
                          RSub(surface_y, rotated[i].transformed_y)).value

\* The sum of the doses the beams of the log lg give voxel i, in their order.
RECURSIVE SumOfBeams(_, _, _, _)
SumOfBeams(b, g, lg, i) ==
    IF lg = <<>> THEN Float(0)
    ELSE RAdd(SumOfBeams(b, g, SubSeq(lg, 1, Len(lg) - 1), i),
              BeamDose(b, g, lg[Len(lg)].angle, i))

AllBeamsSucceeded == \A k \in 1..Len(log) : log[k].raised = "none"

\* After successful beams only, every entry of the dose distribution is the
\* sum of the doses of the beams applied, each computed on the grid the plan
\* was made for.
DoseIsSumOfBeams ==
    (plan_made /\ AllBeamsSucceeded) =>
        \A i \in 1..Len(dose_distribution) :
            dose_distribution[i] =
                SumOfBeams(beam, GridOfPrefix(voxels, Len(dose_distribution)), log, i)

\* The end-to-end scenario: one tissue voxel at (0, 0), the table with
\* off-axis coordinates [-1, 1], depths [0, 2] and doses [[10, 20], [10, 20]],
\* one beam at 0 degrees: the voxel has received 10.
ScenarioDose ==
    (/\ Len(voxels) = 1 /\ Len(dose_distribution) = 1
     /\ voxels[1].x = Float(0) /\ voxels[1].y = Float(0) /\ ~IsAir(voxels[1])
     /\ beam = BeamData(<<-1, 1>>, <<0, 2>>, <<<<10, 20>>, <<10, 20>>>>)
     /\ Len(log) = 1 /\ log[1].angle = 0)
    => /\ log[1].raised = "none"
       /\ dose_distribution = <<Float(10)>>

\* C5: the dose distribution is the sum of the doses of the successful beams
\* applied so far; a second successful beam at the angle of the first leaves
\* every entry at twice its value after the first; and the end-to-end
\* scenario accumulates 10.
C5_DosesAccumulate ==
    /\ DoseIsSumOfBeams
    /\ ScenarioDose
    /\ (/\ Treated /\ Len(log) = 2 /\ AllBeamsSucceeded
        /\ log[1].angle = log[2].angle)
       => \A i \in 1..Len(dose_distribution) :
             dose_distribution[i] = RMul(Float(2), dose_before[i])

\* C5's case: two successful beams at different angles on a grid of two
\* voxels or more, each of which has received a dose.
C5_Witness ==
    /\ Treated /\ Len(log) = 2 /\ AllBeamsSucceeded
    /\ log[1].angle # log[2].angle
    /\ Len(dose_distribution) >= 2
    /\ \A i \in 1..Len(dose_distribution) : RGt(dose_distribution[i], Float(0))

===========================================================================
